---- MODULE Spec2Model ----
(***************************************************************************)
(* A model of github.com/matthewmueller/sshx (src/sshx.go): the known_hosts *)
(* trust-on-first-use host key callback, the configuration built around it, *)
(* the three dialling entry points Dial, DialEach and Test, the sessions of *)
(* Run, Exec and Shell with the local terminal, and Split.                  *)
(*                                                                          *)
(* The transport (golang.org/x/crypto/ssh) and the known_hosts parser       *)
(* (github.com/skeema/knownhosts) are collaborators of the package; they    *)
(* are modelled at the call sites of src/sshx.go by what the package        *)
(* observes of them: the result of a lookup, the result of a dial.          *)
(***************************************************************************)
EXTENDS Integers, Sequences, FiniteSets, TLC

VARIABLES
    file,       \* ~/.ssh/known_hosts: the sequence of its lines (host, key)
    perm,       \* what the file system allows on it: "rw", "ro" or "none"
    agent,      \* the SSH agent of this run: "unset", "ok" or "broken"
    cfgs,       \* the *ssh.ClientConfig values a caller of Configure holds
    last,       \* the most recent invocation of a host key callback, as observed
    call,       \* the running call of Dial, DialEach or Test
    sh,         \* the running calls of Run, Exec and Shell, one per caller
    term,       \* the local terminal (os.Stdin): "cooked" or "raw"
    ver,        \* the host key callbacks in flight, one per connection attempt
    sp          \* a call of Split: its input and what it returned

vars == <<file, perm, agent, cfgs, last, call, sh, term, ver, sp>>

----------------------------------------------------------------------------
(* Bounds of the model *)

\* lines of known_hosts before the program first runs
MaxInitFile == 1
\* lines of known_hosts, all told
MaxFile == 2
\* configurations a caller of Configure holds at once
MaxCfg == 1
\* signers a caller hands to Dial, DialEach or Test
MaxStatic == 2
\* callers of Run, Exec and Shell at once
MaxCallers == 2
\* connection attempts verifying a host key at once
MaxVerifiers == 2
\* characters of an address handed to Split
MaxAddr == 4

----------------------------------------------------------------------------
(* Values *)

Hosts == {"h1", "h2"}
\* the host keys a host may present, all of one key type
Keys == {"k1", "k2"}
Lines == [host : Hosts, key : Keys]
Signers == {"A", "B"}
Perms == {"rw", "ro", "none"}
AgentStates == {"unset", "ok", "broken"}

\* sequences over S of length at most n
SeqUpTo(S, n) == UNION {[1..k -> S] : k \in 0..n}

\* a Go nil error
nil == "nil"

----------------------------------------------------------------------------
(* github.com/skeema/knownhosts, as src/sshx.go uses it *)

\* the lines of db for host h, by position
LinesFor(db, h) == {i \in 1..Len(db) : db[i].host = h}

\* db has a line for host h
HasRecord(db, h) == LinesFor(db, h) # {}

\* the key db knows for host h: that of its first line for h (of the lines of
\* one key type the first one counts)
KnownKey(db, h) ==
    db[CHOOSE i \in LinesFor(db, h) : \A j \in LinesFor(db, h) : i <= j].key

ErrUnknown == "knownhosts: key is unknown"
ErrMismatch == "knownhosts: key mismatch"

\* knownHostsDb.HostKeyCallback(): the lookup of (hostname, key) in the lines
\* that were loaded. A host without lines is unknown; a host whose known key
\* is another key is a mismatch.
innerCallback(db, hostname, key) ==
    IF ~HasRecord(db, hostname) THEN ErrUnknown
    ELSE IF KnownKey(db, hostname) = key THEN nil
    ELSE ErrMismatch

\* knownhosts.IsHostUnknown
IsHostUnknown(err) == err = ErrUnknown

\* NewDB did it load no line of the file
NewDBEmpty(f, p) ==
    IF p = "none" THEN [err |-> "ssh: could not load known_hosts db", db |-> <<>>]
    ELSE [err |-> nil, db |-> <<>>]

\* knownhosts.NewDB(knownHostsPath): the lines of the file, or an error
NewDB(f, p) ==
    IF p = "none" THEN [err |-> "ssh: could not load known_hosts db", db |-> <<>>]
    ELSE [err |-> nil, db |-> f]

\* AppendKnownHost had the file been opened without O_APPEND
AppendKnownHostOverwrite(f, p, writeOk, hostname, key) ==
    IF p = "rw" /\ writeOk THEN <<[host |-> hostname, key |-> key]>> ELSE f

\* os.OpenFile(knownHostsPath, O_APPEND|O_WRONLY) then WriteKnownHost: the file
\* after the attempt. writeOk is whether the write itself went through.
AppendKnownHost(f, p, writeOk, hostname, key) ==
    IF p = "rw" /\ writeOk
    THEN Append(f, [host |-> hostname, key |-> key])
    ELSE f

----------------------------------------------------------------------------
(* loadKnownHosts and configure *)

\* loadKnownHosts: the callback closes over the db loaded here, once
loadKnownHosts(f, p) == NewDB(f, p)

\* HostKeyCallback did it take every error of the lookup for an unknown host
HostKeyCallbackLenient(db, f, p, writeOk, hostname, key) ==
    LET err == innerCallback(db, hostname, key)
    IN  IF err # nil
        THEN [err |-> nil, file |-> AppendKnownHost(f, p, writeOk, hostname, key)]
        ELSE [err |-> nil, file |-> f]

\* HostKeyCallback did it return the error of a failed append
HostKeyCallbackMustPersist(db, f, p, writeOk, hostname, key) ==
    LET err == innerCallback(db, hostname, key)
    IN  IF err # nil
        THEN IF ~IsHostUnknown(err)
             THEN [err |-> err, file |-> f]
             ELSE IF p = "rw" /\ writeOk
                  THEN [err |-> nil,
                        file |-> AppendKnownHost(f, p, writeOk, hostname, key)]
                  ELSE [err |-> "ssh: could not write known_hosts", file |-> f]
        ELSE [err |-> nil, file |-> f]

\* The callback loadKnownHosts returns, invoked on (hostname, key) with the
\* file as it is now: the error it returns and the file it leaves.
HostKeyCallback(db, f, p, writeOk, hostname, key) ==
    LET err == innerCallback(db, hostname, key)
    IN  IF err # nil
        THEN IF ~IsHostUnknown(err)
             THEN [err |-> err, file |-> f]
             ELSE [err |-> nil, file |-> AppendKnownHost(f, p, writeOk, hostname, key)]
        ELSE [err |-> nil, file |-> f]

\* ssh.InsecureIgnoreHostKey()
InsecureIgnoreHostKey(f) == [err |-> nil, file |-> f]

\* ssh.PublicKeys(signer) and ssh.PublicKeysCallback(agent.Signers)
PublicKeys(signer) == [method |-> "publickey", signer |-> signer]
PublicKeysCallback == [method |-> "publickey", signer |-> "agent"]

\* the Auth list configure builds: one method per signer, in order
SignerAuth(signers) == [i \in 1..Len(signers) |-> PublicKeys(signers[i])]

\* configure did it keep the known_hosts callback over a db that failed to load
configureFailClosed(f, p, signers) ==
    LET kh == loadKnownHosts(f, p)
    IN  [cb |-> "knownhosts", db |-> kh.db, loadErr |-> kh.err,
         auth |-> SignerAuth(signers)]

\* configure(user, host, signers...): the host key callback is the known_hosts
\* one if the db loads and the accept-all one if it does not
configure(f, p, signers) ==
    LET kh == loadKnownHosts(f, p)
    IN  IF kh.err = nil
        THEN [cb |-> "knownhosts", db |-> kh.db, loadErr |-> nil,
              auth |-> SignerAuth(signers)]
        ELSE [cb |-> "insecure", db |-> <<>>, loadErr |-> kh.err,
              auth |-> SignerAuth(signers)]

\* config.HostKeyCallback(hostname, remote, key)
Verify(cfg, f, p, writeOk, hostname, key) ==
    IF cfg.cb = "knownhosts"
    THEN HostKeyCallback(cfg.db, f, p, writeOk, hostname, key)
    ELSE InsecureIgnoreHostKey(f)

\* Configure without the agent's method
ConfigureNoAgent(f, p, ag, signers) == configure(f, p, signers)

\* Configure(user, host, signers...): configure, then the agent's auth method
\* if loadAgent finds an agent
Configure(f, p, ag, signers) ==
    LET config == configure(f, p, signers)
    IN  IF ag # "unset"
        THEN [config EXCEPT !.auth = Append(config.auth, PublicKeysCallback)]
        ELSE config

----------------------------------------------------------------------------
(* golang.org/x/crypto/ssh, as src/sshx.go uses it *)

\* What one ssh.Dial meets: whether the host is reached, the host key it
\* presents, whether a write to known_hosts goes through, whether the server
\* accepts the credential offered.
Envs == [reach : BOOLEAN, key : Keys, writeOk : BOOLEAN, accept : BOOLEAN]

\* the dials that get as far as the key exchange
Reached == {env \in Envs : env.reach}

ErrNetwork == "dial tcp: connect failed"
\* the error of a dial whose host key callback returned err
ErrHandshake(err) ==
    IF err = ErrMismatch
    THEN "ssh: handshake failed: knownhosts: key mismatch"
    ELSE "ssh: handshake failed"
ErrAuth == "ssh: unable to authenticate"

\* the client's authentication with config.Auth: the transport offers the
\* first method of a kind; an agent that cannot list its signers fails it
Authenticates(cfg, ag, env) ==
    /\ cfg.auth # <<>>
    /\ env.accept
    /\ Head(cfg.auth).signer = "agent" => ag = "ok"

\* ssh.Dial("tcp", host, config): connect, exchange keys (the host key
\* callback decides), authenticate. The error and client it returns, the
\* result of the callback if it was invoked, and the file it leaves.
SshDial(cfg, f, p, ag, hostname, env) ==
    IF ~env.reach
    THEN [err |-> ErrNetwork, client |-> "none", invoked |-> FALSE,
          cberr |-> nil, file |-> f]
    ELSE LET v == Verify(cfg, f, p, env.writeOk, hostname, env.key)
         IN  IF v.err # nil
             THEN [err |-> ErrHandshake(v.err), client |-> "none",
                   invoked |-> TRUE, cberr |-> v.err, file |-> v.file]
             ELSE IF Authenticates(cfg, ag, env)
                  THEN [err |-> nil, client |-> "open", invoked |-> TRUE,
                        cberr |-> nil, file |-> v.file]
                  ELSE [err |-> ErrAuth, client |-> "none", invoked |-> TRUE,
                        cberr |-> nil, file |-> v.file]

----------------------------------------------------------------------------
(* State *)

\* no configuration held
NoConfig == [cb |-> "none", db |-> <<>>, loadErr |-> nil, auth |-> <<>>]

\* no dial observed yet
NoDial ==
    [valid |-> FALSE, cb |-> "none", db |-> <<>>, loadErr |-> nil,
     hostname |-> "h1", key |-> "k1", invoked |-> FALSE, cberr |-> nil,
     err |-> nil, client |-> "none", before |-> <<>>, after |-> <<>>,
     writable |-> FALSE]

\* what a dial with cfg looked like: the configuration, what the host
\* presented, what came back, and the file as it was before
Observed(cfg, f, p, ag, hostname, env) ==
    LET r == SshDial(cfg, f, p, ag, hostname, env)
    IN  [valid |-> TRUE, cb |-> cfg.cb, db |-> cfg.db, loadErr |-> cfg.loadErr,
         hostname |-> hostname, key |-> env.key, invoked |-> r.invoked,
         cberr |-> r.cberr, err |-> r.err, client |-> r.client,
         before |-> f, after |-> r.file,
         writable |-> (p = "rw" /\ env.writeOk)]

\* no call running
Idle ==
    [op |-> "none", pc |-> "idle", host |-> "h1", static |-> <<>>,
     agent |-> "unset", signers |-> <<>>, attempts |-> <<>>,
     client |-> "none", signer |-> nil, err |-> nil]

\* known_hosts as the program finds it: lines written by earlier runs or by
\* other tools
InitFiles == SeqUpTo(Lines, MaxInitFile)

\* an error of a session call: its message or type, and the exit status of
\* an *ssh.ExitError
Err(kind, status) == [kind |-> kind, status |-> status]
NoErr == Err("nil", 0)
NoRun == Err("none", 0)

\* no command formatted yet
NoCmd == [cd |-> <<>>, exec |-> <<>>]

\* no call of Run, Exec or Shell running
NoSession ==
    [op |-> "none", pc |-> "idle", dir |-> <<".">>, args |-> <<>>,
     session |-> "none", saved |-> "none", pty |-> FALSE, raw |-> FALSE,
     cmd |-> NoCmd, run |-> NoRun, stdout |-> <<>>, out |-> <<>>,
     err |-> NoErr]

NoVerify ==
    [pc |-> "idle", db |-> <<>>, hostname |-> "h1", key |-> "k1",
     offset |-> 0, writes |-> 0, err |-> nil]

\* no call of Split
NoSplit ==
    [pc |-> "idle", input |-> <<>>, current |-> FALSE, which |-> "none",
     user |-> <<>>, host |-> <<>>, err |-> nil]

\* the entry points a specification leaves alone
IdleSessions ==
    /\ sh = [p \in 1..MaxCallers |-> NoSession]
    /\ term = "cooked"
IdleVerifiers == ver = [p \in 1..MaxVerifiers |-> NoVerify]
IdleSplit == sp = NoSplit

----------------------------------------------------------------------------
(* The trust store on its own: a caller of Configure who dials with the     *)
(* configurations it holds                                                  *)

InitStore ==
    /\ file \in InitFiles
    /\ perm \in Perms
    /\ agent = "ok"
    /\ cfgs = [c \in 1..MaxCfg |-> NoConfig]
    /\ last = NoDial
    /\ call = Idle
    /\ IdleSessions
    /\ IdleVerifiers
    /\ IdleSplit

\* the caller builds a configuration and keeps it in slot c
DoConfigure(c) ==
    /\ cfgs' = [cfgs EXCEPT ![c] = Configure(file, perm, agent, <<>>)]
    /\ UNCHANGED <<file, perm, agent, last, call, sh, term, ver, sp>>

\* the caller dials hostname with the configuration in slot c
DialConfig(c, hostname, env) ==
    /\ cfgs[c].cb # "none"
    /\ LET r == SshDial(cfgs[c], file, perm, agent, hostname, env)
       IN  /\ Len(r.file) <= MaxFile
           /\ file' = r.file
           /\ last' = Observed(cfgs[c], file, perm, agent, hostname, env)
    /\ UNCHANGED <<perm, agent, cfgs, call, sh, term, ver, sp>>

\* the file system changes under the program: the file becomes read-only,
\* unreadable or absent, or writable again
Chmod(p) ==
    /\ p # perm
    /\ perm' = p
    /\ UNCHANGED <<file, agent, cfgs, last, call, sh, term, ver, sp>>

NextStore ==
    \/ \E c \in 1..MaxCfg : DoConfigure(c)
    \/ \E c \in 1..MaxCfg, hostname \in Hosts, env \in Reached :
          DialConfig(c, hostname, env)
    \/ \E p \in Perms : Chmod(p)

SpecStore == InitStore /\ [][NextStore]_vars

----------------------------------------------------------------------------
(* Dial, DialEach and Test *)

\* the signers the agent holds
AgentSigners == <<"C">>

ErrNoAgent == "ssh: SSH_AUTH_SOCK is not set"
ErrAgentSigners == "agent: failed to list signers"

\* loadAgent: an agent client, unless SSH_AUTH_SOCK is unset or not answering
loadAgent(ag) == IF ag = "unset" THEN ErrNoAgent ELSE nil

\* agent.Signers()
agentSigners(ag) ==
    IF ag = "ok" THEN [err |-> nil, signers |-> AgentSigners]
    ELSE [err |-> ErrAgentSigners, signers |-> <<>>]

\* the error DialEach and Test end with when no signer connected
ErrUnable(host) ==
    IF host = "h1" THEN "ssh: unable to connect to h1"
    ELSE "ssh: unable to connect to h2"

\* DialEach and Test, up to their loop: the signers to try, the caller's
\* followed by the agent's, or the error of an agent that cannot list them
Candidates(static, ag) ==
    IF loadAgent(ag) = nil
    THEN IF agentSigners(ag).err # nil
         THEN [err |-> agentSigners(ag).err, signers |-> <<>>]
         ELSE [err |-> nil, signers |-> static \o agentSigners(ag).signers]
    ELSE [err |-> nil, signers |-> static]

\* the call as DialEach or Test leaves it when it enters its loop, or when it
\* returns the agent's error
Started(op, host, static, ag) ==
    LET cand == Candidates(static, ag)
    IN  [op |-> op, pc |-> IF cand.err = nil THEN "loop" ELSE "done",
         host |-> host, static |-> static, agent |-> ag,
         signers |-> cand.signers, attempts |-> <<>>,
         client |-> "none", signer |-> nil,
         err |-> cand.err]

\* one dial as the call's log keeps it; wrote is whether the dial, which
\* loaded cfg.db from the file as it was, left a longer file
Attempt(signer, cfg, r) ==
    [signer |-> signer, auth |-> cfg.auth, reached |-> r.invoked,
     cberr |-> r.cberr, err |-> r.err,
     wrote |-> (cfg.cb = "knownhosts" /\ Len(r.file) > Len(cfg.db))]

\* the signer the loop is at
CurrentSigner(c) == c.signers[Len(c.attempts) + 1]

\* Looped did a successful dial not return
LoopedNoStop(c, cfg, r, closing) ==
    LET c1 == [c EXCEPT !.attempts = Append(@, Attempt(CurrentSigner(c), cfg, r))]
    IN  IF r.err = nil
        THEN [c1 EXCEPT !.signer = CurrentSigner(c),
                        !.client = IF closing THEN "closed" ELSE "open"]
        ELSE c1

\* Looped did Test not close the client
LoopedNoClose(c, cfg, r, closing) ==
    LET c1 == [c EXCEPT !.attempts = Append(@, Attempt(CurrentSigner(c), cfg, r))]
    IN  IF r.err = nil
        THEN [c1 EXCEPT !.pc = "done", !.signer = CurrentSigner(c),
                        !.client = "open"]
        ELSE c1

\* one pass of the loop of DialEach (closing FALSE) or Test (closing TRUE)
\* with the result r of its dial: return on success, go on otherwise
Looped(c, cfg, r, closing) ==
    LET c1 == [c EXCEPT !.attempts = Append(@, Attempt(CurrentSigner(c), cfg, r))]
    IN  IF r.err = nil
        THEN [c1 EXCEPT !.pc = "done", !.signer = CurrentSigner(c),
                        !.client = IF closing THEN "closed" ELSE "open"]
        ELSE c1

\* the loop has run out of signers
Exhausted(c) == [c EXCEPT !.pc = "done", !.err = ErrUnable(c.host)]

\* the caller's signers
Statics == SeqUpTo(Signers, MaxStatic)

Init ==
    /\ file \in InitFiles
    /\ perm \in Perms
    /\ agent \in AgentStates
    /\ cfgs = [c \in 1..MaxCfg |-> NoConfig]
    /\ last = NoDial
    /\ call = Idle
    /\ IdleSessions
    /\ IdleVerifiers
    /\ IdleSplit

\* DialEach(user, host, signers...), to the head of its loop
DialEachStart(host, static) ==
    /\ call.pc = "idle"
    /\ call' = Started("DialEach", host, static, agent)
    /\ UNCHANGED <<file, perm, agent, cfgs, last, sh, term, ver, sp>>

\* DialEach: one pass of its loop, a configure and a dial
DialEachAttempt(env) ==
    /\ call.pc = "loop"
    /\ call.op = "DialEach"
    /\ Len(call.attempts) < Len(call.signers)
    /\ LET config == configure(file, perm, <<CurrentSigner(call)>>)
           r == SshDial(config, file, perm, agent, call.host, env)
       IN  /\ Len(r.file) <= MaxFile
           /\ file' = r.file
           /\ call' = Looped(call, config, r, FALSE)
    /\ UNCHANGED <<perm, agent, cfgs, last, sh, term, ver, sp>>

\* DialEach: past its loop
DialEachExhausted ==
    /\ call.pc = "loop"
    /\ call.op = "DialEach"
    /\ Len(call.attempts) = Len(call.signers)
    /\ call' = Exhausted(call)
    /\ UNCHANGED <<file, perm, agent, cfgs, last, sh, term, ver, sp>>

\* Test(user, host, signers...), to the head of its loop
TestStart(host, static) ==
    /\ call.pc = "idle"
    /\ call' = Started("Test", host, static, agent)
    /\ UNCHANGED <<file, perm, agent, cfgs, last, sh, term, ver, sp>>

\* Test: one pass of its loop, a configure, a dial and on success a Close
TestAttempt(env) ==
    /\ call.pc = "loop"
    /\ call.op = "Test"
    /\ Len(call.attempts) < Len(call.signers)
    /\ LET config == configure(file, perm, <<CurrentSigner(call)>>)
           r == SshDial(config, file, perm, agent, call.host, env)
       IN  /\ Len(r.file) <= MaxFile
           /\ file' = r.file
           /\ call' = Looped(call, config, r, TRUE)
    /\ UNCHANGED <<perm, agent, cfgs, last, sh, term, ver, sp>>

\* Test: past its loop
TestExhausted ==
    /\ call.pc = "loop"
    /\ call.op = "Test"
    /\ Len(call.attempts) = Len(call.signers)
    /\ call' = Exhausted(call)
    /\ UNCHANGED <<file, perm, agent, cfgs, last, sh, term, ver, sp>>

\* Dial(user, host, signers...): Configure, then one ssh.Dial whose result is
\* returned
Dial(host, static, env) ==
    /\ call.pc = "idle"
    /\ LET config == Configure(file, perm, agent, static)
           r == SshDial(config, file, perm, agent, host, env)
       IN  /\ Len(r.file) <= MaxFile
           /\ file' = r.file
           /\ call' = [op |-> "Dial", pc |-> "done", host |-> host,
                       static |-> static, agent |-> agent, signers |-> static,
                       attempts |-> <<Attempt(nil, config, r)>>,
                       client |-> r.client, signer |-> nil,
                       err |-> r.err]
    /\ UNCHANGED <<perm, agent, cfgs, last, sh, term, ver, sp>>

\* the caller has the result; it closes the client it was given, if any
Return ==
    /\ call.pc = "done"
    /\ call' = Idle
    /\ UNCHANGED <<file, perm, agent, cfgs, last, sh, term, ver, sp>>

\* the host the calls are made to; known_hosts holds lines of every host,
\* and the hosts are alike
CalledHost == "h1"

Next ==
    \/ \E static \in Statics : DialEachStart(CalledHost, static)
    \/ \E env \in Envs : DialEachAttempt(env)
    \/ DialEachExhausted
    \/ \E static \in Statics : TestStart(CalledHost, static)
    \/ \E env \in Envs : TestAttempt(env)
    \/ TestExhausted
    \/ \E static \in Statics, env \in Envs : Dial(CalledHost, static, env)
    \/ Return
    \/ \E p \in Perms : Chmod(p)

Spec == Init /\ [][Next]_vars

----------------------------------------------------------------------------
(* The trust store: claims C1 to C6, under SpecStore *)

\* the line the callback writes for (hostname, key)
LineOf(hostname, key) == [host |-> hostname, key |-> key]

\* the last dial invoked the known_hosts callback
Checked == last.valid /\ last.invoked /\ last.cb = "knownhosts"

\* the records that were loaded hold another key for the host
LoadedDiffers ==
    /\ HasRecord(last.db, last.hostname)
    /\ KnownKey(last.db, last.hostname) # last.key

\* the records that were loaded hold nothing for the host
LoadedUnknown == ~HasRecord(last.db, last.hostname)

C2_UnknownPersistsOne ==
    (Checked /\ LoadedUnknown) =>
        /\ last.cberr = nil
        /\ last.after = Append(last.before, LineOf(last.hostname, last.key))

\* C2 as amended: verifying a hostname without a record among the records
\* loaded succeeds; if known_hosts can be opened for append and the write
\* goes through, exactly one record, that of the hostname and key, is
\* appended, and if not, nothing is.
C2_UnknownPersistsOneIfWritable ==
    (Checked /\ LoadedUnknown) =>
        /\ last.cberr = nil
        /\ last.writable =>
              last.after = Append(last.before, LineOf(last.hostname, last.key))
        /\ ~last.writable => last.after = last.before

C2_Witness ==
    /\ Checked
    /\ LoadedUnknown
    /\ last.writable
    /\ last.before # <<>>
    /\ Len(last.after) = Len(last.before) + 1

\* C3: once known_hosts holds the key a hostname was accepted with, verifying
\* the hostname with that key succeeds and leaves known_hosts as it was.
C3_KnownKeyNoMutation ==
    (/\ last.valid
     /\ last.invoked
     /\ HasRecord(last.before, last.hostname)
     /\ KnownKey(last.before, last.hostname) = last.key) =>
        /\ last.cberr = nil
        /\ last.after = last.before

\* C4: known_hosts only grows at its end, and a key that differs from the one
\* known_hosts holds for a hostname is never written.
C4_AppendOnly ==
    last.valid =>
        /\ Len(last.before) <= Len(last.after)
        /\ SubSeq(last.after, 1, Len(last.before)) = last.before
        /\ (/\ HasRecord(last.before, last.hostname)
            /\ KnownKey(last.before, last.hostname) # last.key) =>
               last.after = last.before

\* C5: a configuration built while known_hosts could not be loaded has the
\* accept-all callback; a dial with it accepts whatever key is presented and
\* writes nothing.
C5_InsecureFallback ==
    /\ \A c \in 1..MaxCfg :
          cfgs[c].cb # "none" =>
              (cfgs[c].loadErr # nil <=> cfgs[c].cb = "insecure")
    /\ (last.valid /\ last.invoked /\ last.loadErr # nil) =>
          /\ last.cberr = nil
          /\ last.err # ErrHandshake(ErrMismatch)
          /\ last.after = last.before

C5_Witness ==
    /\ last.valid
    /\ last.invoked
    /\ last.loadErr # nil
    /\ HasRecord(last.before, last.hostname)
    /\ KnownKey(last.before, last.hostname) # last.key
    /\ last.client = "open"

\* C6: when the host is unknown and the record cannot be appended, the
\* callback still returns no error, the dial is not failed by it, and
\* known_hosts is as it was.
C6_AppendFailureTolerated ==
    (Checked /\ LoadedUnknown /\ ~last.writable) =>
        /\ last.cberr = nil
        /\ last.err \in {nil, ErrAuth}
        /\ last.client = "open" <=> last.err = nil
        /\ last.after = last.before

C6_Witness ==
    /\ Checked
    /\ LoadedUnknown
    /\ ~last.writable
    /\ last.client = "open"

----------------------------------------------------------------------------
(* Dial, DialEach and Test: claims C7 to C10, under Spec *)

\* the call is one of DialEach or Test
Exploratory == call.op \in {"DialEach", "Test"}

\* the dials of the call so far, by position
Tried == 1..Len(call.attempts)

\* C7: in DialEach and Test, a dial that failed with a host key mismatch is
\* the call's last dial, and its error is the error the call returns.
C7_MismatchNotRetried ==
    Exploratory =>
        \A j \in Tried :
            call.attempts[j].cberr = ErrMismatch =>
                /\ j = Len(call.attempts)
                /\ call.pc = "done" => call.err = call.attempts[j].err

\* C8: DialEach and Test try the caller's signers followed by the agent's,
\* one dial per signer with that signer alone, in the order of the list; a
\* dial is made only after every earlier one failed; the first dial that
\* succeeds ends the call, which returns its signer; the call gives up only
\* after a failed dial for every signer.
C8_SequentialFirstSuccess ==
    Exploratory =>
        /\ call.err # ErrAgentSigners =>
              call.signers =
                  call.static \o (IF call.agent = "ok" THEN AgentSigners ELSE <<>>)
        /\ Len(call.attempts) <= Len(call.signers)
        /\ \A j \in Tried :
              /\ call.attempts[j].signer = call.signers[j]
              /\ call.attempts[j].auth = <<PublicKeys(call.signers[j])>>
              /\ j < Len(call.attempts) => call.attempts[j].err # nil
        /\ (\E j \in Tried : call.attempts[j].err = nil) =>
              /\ call.pc = "done"
              /\ call.err = nil
              /\ call.signer = call.signers[Len(call.attempts)]
        /\ (call.pc = "done" /\ call.err = ErrUnable(call.host)) =>
              /\ call.signer = nil
              /\ Len(call.attempts) = Len(call.signers)
              /\ \A j \in Tried : call.attempts[j].err # nil
        /\ call.signer # nil => \E j \in Tried : call.attempts[j].err = nil

\* the list [A, B, C] of which the host takes B: two dials, A then B, B returned
C8_Witness ==
    /\ call.op = "DialEach"
    /\ call.pc = "done"
    /\ call.signers = <<"A", "B", "C">>
    /\ Len(call.attempts) = 2
    /\ call.attempts[1].signer = "A"
    /\ call.attempts[1].err = ErrAuth
    /\ call.signer = "B"
    /\ call.client = "open"

\* C9: a DialEach or Test in which no dial succeeded returns the
\* unable-to-connect error if some dial reached the host, and another error
\* if none did.
C9_NoCredentialDistinctFromNetwork ==
    (Exploratory /\ call.pc = "done" /\ call.signer = nil /\ call.attempts # <<>>) =>
        /\ (\E j \in Tried : call.attempts[j].reached) =>
              call.err = ErrUnable(call.host)
        /\ (\A j \in Tried : ~call.attempts[j].reached) =>
              call.err # ErrUnable(call.host)

\* C10: Dial makes one dial, with a configuration whose Auth is one method
\* per caller's signer, in the caller's order, followed by the agent's
\* method if there is an agent; what Dial returns is what that dial returned.
C10_DialOnce ==
    call.op = "Dial" =>
        /\ call.pc = "done"
        /\ Len(call.attempts) = 1
        /\ LET auth == call.attempts[1].auth
               n == Len(call.static)
           IN  /\ Len(auth) = IF call.agent = "unset" THEN n ELSE n + 1
               /\ \A i \in 1..n : auth[i] = PublicKeys(call.static[i])
               /\ call.agent # "unset" => auth[n + 1] = PublicKeysCallback
        /\ call.err = call.attempts[1].err
        /\ call.client = "open" <=> call.err = nil

C10_Witness ==
    /\ call.op = "Dial"
    /\ call.static = <<"B", "A">>
    /\ call.agent = "ok"
    /\ Len(call.attempts[1].auth) = 3
    /\ call.client = "open"

----------------------------------------------------------------------------
(* Run, Exec and Shell: sessions and the local terminal *)

\* the status of a shell ended by SIGINT
SigintStatus == 130

ExitStatuses == {1, 2, SigintStatus}
ExitError(status) == Err("*ssh.ExitError", status)
ExitMissingError == Err("*ssh.ExitMissingError", 0)

\* what session.Run returns: nil, an exit status that is not 0, or the
\* session lost without a status
RunResults == {NoErr, ExitMissingError} \cup {ExitError(n) : n \in ExitStatuses}

ErrInvalidDir == Err("ssh: invalid directory", 0)
ErrNewSession == Err("ssh: could not create session", 0)
ErrMakeRaw == Err("ssh: could not make terminal raw", 0)
ErrGetSize == Err("ssh: could not get terminal size", 0)
ErrRequestPty == Err("ssh: could not request pty", 0)
ErrExitStatus(status) == Err("ssh: exit status", status)
ErrSessionEnded == Err("ssh: session ended unexpectedly", 0)

\* directories, as their elements between slashes: ".", "srv/app", "/srv",
\* "../x" and ""
Dirs == {<<".">>, <<"srv", "app">>, <<"", "srv">>, <<"..", "x">>, <<"">>}

\* fs.ValidPath(dir): "." or elements none of which is empty, "." or ".."
ValidPath(dir) ==
    \/ dir = <<".">>
    \/ \A i \in 1..Len(dir) : dir[i] \notin {"", ".", ".."}

ArgLists == {<<>>, <<"ls">>, <<"ls", "-l">>}

\* strings.Join(args, " ")
RECURSIVE Join(_)
Join(args) ==
    IF Len(args) = 0 THEN <<>>
    ELSE IF Len(args) = 1 THEN <<args[1]>>
    ELSE <<args[1], " ">> \o Join(Tail(args))

\* formatCommand(dir, args...)
formatCommand(dir, args) ==
    IF Len(args) = 0
    THEN [cd |-> dir, exec |-> <<"$SHELL">>]
    ELSE [cd |-> dir, exec |-> <<"$SHELL", "-c">> \o Join(args)]

\* what the remote command wrote to its stdout
Stdouts == {<<>>, <<"a">>, <<"a", "\n">>, <<"a", "\n", "\n">>, <<"\n", "a">>}

\* strings.TrimRight(s, "\n")
RECURSIVE TrimRight(_)
TrimRight(s) ==
    IF Len(s) > 0 /\ s[Len(s)] = "\n"
    THEN TrimRight(SubSeq(s, 1, Len(s) - 1))
    ELSE s

\* Shell did it raise the terminal for a command too
AfterSessionAlwaysTerminal(args) == "makeraw"

\* Shell after NewSession: the command, or the terminal
AfterSession(args) == IF Len(args) > 0 THEN "runargs" ELSE "makeraw"

\* Shell did it report status 130 like every other status
TranslateEveryStatus(res) ==
    IF res = NoErr THEN NoErr
    ELSE IF res.kind = "*ssh.ExitError" THEN ErrExitStatus(res.status)
    ELSE ErrSessionEnded

\* the error Shell returns for the result of session.Run of the shell
Translate(res) ==
    IF res = NoErr THEN NoErr
    ELSE IF res.kind = "*ssh.ExitError"
    THEN IF res.status = SigintStatus THEN NoErr
         ELSE ErrExitStatus(res.status)
    ELSE ErrSessionEnded

\* term.Restore did it leave the terminal alone after an error
RestoreUnlessError(s, t) == IF s.err # NoErr THEN t ELSE s.saved

\* the deferred term.Restore(fd, state): the terminal after it
Restore(s, t) == s.saved

\* session.Close did it run only on the paths without error
CloseUnlessError(s) ==
    IF s.err # NoErr THEN [s EXCEPT !.pc = "done"]
    ELSE [s EXCEPT !.session = "closed", !.pc = "done"]

\* the deferred session.Close(), the last step before the call returns
Close(s) == [s EXCEPT !.session = "closed", !.pc = "done"]

\* the first lines of Run and Exec: NewSession and its defer
Opened(op, ok) ==
    IF ok
    THEN [NoSession EXCEPT !.op = op, !.pc = "run", !.session = "open"]
    ELSE [NoSession EXCEPT !.op = op, !.pc = "done", !.err = ErrNewSession]

RunStart(p, ok) ==
    /\ sh[p].pc = "idle"
    /\ sh' = [sh EXCEPT ![p] = Opened("Run", ok)]
    /\ UNCHANGED <<file, perm, agent, cfgs, last, call, term, ver, sp>>

\* session.Run(cmd) of Run, with the stdout it collected
RunRun(p, res, stdout) ==
    /\ sh[p].op = "Run"
    /\ sh[p].pc = "run"
    /\ sh' = [sh EXCEPT ![p] =
                [@ EXCEPT !.pc = "close", !.run = res, !.err = res,
                          !.stdout = stdout,
                          !.out = IF res = NoErr THEN TrimRight(stdout)
                                  ELSE <<>>]]
    /\ UNCHANGED <<file, perm, agent, cfgs, last, call, term, ver, sp>>

ExecStart(p, ok) ==
    /\ sh[p].pc = "idle"
    /\ sh' = [sh EXCEPT ![p] = Opened("Exec", ok)]
    /\ UNCHANGED <<file, perm, agent, cfgs, last, call, term, ver, sp>>

ExecRun(p, res) ==
    /\ sh[p].op = "Exec"
    /\ sh[p].pc = "run"
    /\ sh' = [sh EXCEPT ![p] = [@ EXCEPT !.pc = "close", !.run = res,
                                         !.err = res]]
    /\ UNCHANGED <<file, perm, agent, cfgs, last, call, term, ver, sp>>

\* Shell up to the branch on args
ShellStart(p, dir, args, ok) ==
    /\ sh[p].pc = "idle"
    /\ LET s == [NoSession EXCEPT !.op = "Shell", !.dir = dir, !.args = args]
       IN  sh' = [sh EXCEPT ![p] =
                    IF ~ValidPath(dir)
                    THEN [s EXCEPT !.pc = "done", !.err = ErrInvalidDir]
                    ELSE IF ~ok
                    THEN [s EXCEPT !.pc = "done", !.err = ErrNewSession]
                    ELSE [s EXCEPT !.pc = AfterSession(args),
                                   !.session = "open"]]
    /\ UNCHANGED <<file, perm, agent, cfgs, last, call, term, ver, sp>>

\* the command of Shell with args: the result of session.Run as it is
ShellRunArgs(p, res) ==
    /\ sh[p].pc = "runargs"
    /\ sh' = [sh EXCEPT ![p] =
                [@ EXCEPT !.pc = "close", !.run = res, !.err = res,
                          !.cmd = formatCommand(sh[p].dir, sh[p].args)]]
    /\ UNCHANGED <<file, perm, agent, cfgs, last, call, term, ver, sp>>

\* term.MakeRaw(fd): the state of the terminal is read and kept, the
\* terminal is made raw
MakeRaw(p, ok) ==
    /\ sh[p].pc = "makeraw"
    /\ IF ok
       THEN /\ sh' = [sh EXCEPT ![p] = [@ EXCEPT !.pc = "getsize",
                                                 !.saved = term,
                                                 !.raw = TRUE]]
            /\ term' = "raw"
       ELSE /\ sh' = [sh EXCEPT ![p] = [@ EXCEPT !.pc = "close",
                                                 !.err = ErrMakeRaw]]
            /\ term' = term
    /\ UNCHANGED <<file, perm, agent, cfgs, last, call, ver, sp>>

GetSize(p, ok) ==
    /\ sh[p].pc = "getsize"
    /\ sh' = [sh EXCEPT ![p] =
                IF ok THEN [@ EXCEPT !.pc = "pty"]
                ELSE [@ EXCEPT !.pc = "restore", !.err = ErrGetSize]]
    /\ UNCHANGED <<file, perm, agent, cfgs, last, call, term, ver, sp>>

RequestPty(p, ok) ==
    /\ sh[p].pc = "pty"
    /\ sh' = [sh EXCEPT ![p] =
                IF ok THEN [@ EXCEPT !.pc = "run", !.pty = TRUE]
                ELSE [@ EXCEPT !.pc = "restore", !.err = ErrRequestPty]]
    /\ UNCHANGED <<file, perm, agent, cfgs, last, call, term, ver, sp>>

\* the shell of Shell without args, and the error made of its result
ShellRun(p, res) ==
    /\ sh[p].op = "Shell"
    /\ sh[p].pc = "run"
    /\ sh' = [sh EXCEPT ![p] =
                [@ EXCEPT !.pc = "restore", !.run = res,
                          !.err = Translate(res),
                          !.cmd = formatCommand(sh[p].dir, sh[p].args)]]
    /\ UNCHANGED <<file, perm, agent, cfgs, last, call, term, ver, sp>>

\* the deferred calls run last in, first out: term.Restore, then
\* session.Close
ShellRestore(p) ==
    /\ sh[p].pc = "restore"
    /\ term' = Restore(sh[p], term)
    /\ sh' = [sh EXCEPT ![p] = [@ EXCEPT !.pc = "close"]]
    /\ UNCHANGED <<file, perm, agent, cfgs, last, call, ver, sp>>

SessionClose(p) ==
    /\ sh[p].pc = "close"
    /\ sh' = [sh EXCEPT ![p] = Close(sh[p])]
    /\ UNCHANGED <<file, perm, agent, cfgs, last, call, term, ver, sp>>

\* the caller takes the result and may call again
Returned(p) ==
    /\ sh[p].pc = "done"
    /\ sh' = [sh EXCEPT ![p] = NoSession]
    /\ UNCHANGED <<file, perm, agent, cfgs, last, call, term, ver, sp>>

InitShell ==
    /\ file = <<>>
    /\ perm = "rw"
    /\ agent = "unset"
    /\ cfgs = [c \in 1..MaxCfg |-> NoConfig]
    /\ last = NoDial
    /\ call = Idle
    /\ IdleSessions
    /\ IdleVerifiers
    /\ IdleSplit

\* one caller at a time: Run, Exec and Shell, one after another
NextShell ==
    \/ \E ok \in BOOLEAN : RunStart(1, ok)
    \/ \E res \in RunResults, stdout \in Stdouts : RunRun(1, res, stdout)
    \/ \E ok \in BOOLEAN : ExecStart(1, ok)
    \/ \E res \in RunResults : ExecRun(1, res)
    \/ \E dir \in Dirs, args \in ArgLists, ok \in BOOLEAN :
          ShellStart(1, dir, args, ok)
    \/ \E res \in RunResults : ShellRunArgs(1, res)
    \/ \E ok \in BOOLEAN : MakeRaw(1, ok)
    \/ \E ok \in BOOLEAN : GetSize(1, ok)
    \/ \E ok \in BOOLEAN : RequestPty(1, ok)
    \/ \E res \in RunResults : ShellRun(1, res)
    \/ ShellRestore(1)
    \/ SessionClose(1)
    \/ Returned(1)

SpecShell == InitShell /\ [][NextShell]_vars

\* Shell without args called from MaxCallers goroutines of one process
NextShells ==
    \E p \in 1..MaxCallers :
        \/ \E ok \in BOOLEAN : ShellStart(p, <<".">>, <<>>, ok)
        \/ \E ok \in BOOLEAN : MakeRaw(p, ok)
        \/ \E ok \in BOOLEAN : GetSize(p, ok)
        \/ \E ok \in BOOLEAN : RequestPty(p, ok)
        \/ \E res \in RunResults : ShellRun(p, res)
        \/ ShellRestore(p)
        \/ SessionClose(p)
        \/ Returned(p)

SpecShells == InitShell /\ [][NextShells]_vars

----------------------------------------------------------------------------
(* The host key callback step by step, from MaxVerifiers dials at once *)

\* WriteKnownHost had the file been opened without O_APPEND: the write goes
\* to the end the file had when it was opened
WriteKnownHostAtOpenOffset(f, offset, writeOk, hostname, key) ==
    IF ~writeOk THEN f
    ELSE SubSeq(f, 1, offset) \o <<[host |-> hostname, key |-> key]>>
            \o SubSeq(f, offset + 2, Len(f))

\* knownhosts.WriteKnownHost(file, hostname, remote, key) on the file opened
\* with O_APPEND: one Write of the whole line, which the system puts at the
\* end the file has at that moment
WriteKnownHost(f, offset, writeOk, hostname, key) ==
    IF writeOk THEN Append(f, [host |-> hostname, key |-> key]) ELSE f

\* configure for a dial to hostname, whose server will present key: the db
\* is loaded; without db the dial goes on with InsecureIgnoreHostKey
VerifyLoad(p, hostname, key) ==
    /\ ver[p].pc = "idle"
    /\ LET kh == NewDB(file, perm)
       IN  ver' = [ver EXCEPT ![p] =
                     [NoVerify EXCEPT !.pc = IF kh.err = nil THEN "check"
                                             ELSE "done",
                                      !.db = kh.db,
                                      !.hostname = hostname,
                                      !.key = key]]
    /\ UNCHANGED <<file, perm, agent, cfgs, last, call, sh, term, sp>>

\* the callback up to os.OpenFile
VerifyCheck(p) ==
    /\ ver[p].pc = "check"
    /\ LET err == innerCallback(ver[p].db, ver[p].hostname, ver[p].key)
       IN  ver' = [ver EXCEPT ![p] =
                     IF err = nil THEN [@ EXCEPT !.pc = "done"]
                     ELSE IF ~IsHostUnknown(err)
                     THEN [@ EXCEPT !.pc = "done", !.err = err]
                     ELSE [@ EXCEPT !.pc = "open"]]
    /\ UNCHANGED <<file, perm, agent, cfgs, last, call, sh, term, sp>>

\* os.OpenFile(knownHostsPath, O_APPEND|O_WRONLY, 0600)
VerifyOpen(p) ==
    /\ ver[p].pc = "open"
    /\ ver' = [ver EXCEPT ![p] =
                 IF perm = "rw"
                 THEN [@ EXCEPT !.pc = "write", !.offset = Len(file)]
                 ELSE [@ EXCEPT !.pc = "done"]]
    /\ UNCHANGED <<file, perm, agent, cfgs, last, call, sh, term, sp>>

\* WriteKnownHost, the deferred file.Close() and return nil
VerifyWrite(p, writeOk) ==
    /\ ver[p].pc = "write"
    /\ file' = WriteKnownHost(file, ver[p].offset, writeOk,
                              ver[p].hostname, ver[p].key)
    /\ ver' = [ver EXCEPT ![p] =
                 [@ EXCEPT !.pc = "done",
                           !.writes = IF writeOk THEN @ + 1 ELSE @]]
    /\ UNCHANGED <<perm, agent, cfgs, last, call, sh, term, sp>>

InitAppend ==
    /\ file \in InitFiles
    /\ perm \in Perms
    /\ agent = "unset"
    /\ cfgs = [c \in 1..MaxCfg |-> NoConfig]
    /\ last = NoDial
    /\ call = Idle
    /\ IdleSessions
    /\ IdleVerifiers
    /\ IdleSplit

\* every dial verifies once
NextAppend ==
    \E p \in 1..MaxVerifiers :
        \/ \E hostname \in Hosts, key \in Keys : VerifyLoad(p, hostname, key)
        \/ VerifyCheck(p)
        \/ VerifyOpen(p)
        \/ \E writeOk \in BOOLEAN : VerifyWrite(p, writeOk)

SpecAppend == InitAppend /\ [][NextAppend]_vars

----------------------------------------------------------------------------
(* Split: user@host[:port] *)

\* the bytes an address is made of: of a name, "@" and ":"
Chars == {"u", "h", "@", ":"}
Addrs == SeqUpTo(Chars, MaxAddr)

\* the places of byte c in s
Places(s, c) == {i \in 1..Len(s) : s[i] = c}

\* strings.Split(s, sep) for a separator of one byte: the pieces between the
\* separators, one piece for a string without separator, the empty one too
RECURSIVE stringsSplit(_, _)
stringsSplit(s, sep) ==
    IF Places(s, sep) = {} THEN <<s>>
    ELSE LET i == CHOOSE i \in Places(s, sep) : \A j \in Places(s, sep) : i <= j
         IN  <<SubSeq(s, 1, i - 1)>> \o stringsSplit(SubSeq(s, i + 1, Len(s)), sep)

\* current.Username
Username == <<"m">>

ErrInvalidUserHost == "ssh: invalid user@host[:port]"

\* formatHost(addr): port 22 for an address without colon
formatHost(addr) ==
    IF Places(addr, ":") = {} THEN addr \o <<":", "22">> ELSE addr

\* Split of src/sshx.go; current is whether osuser.Current() succeeds
Split(userHost, current) ==
    LET parts == stringsSplit(userHost, "@")
    IN  IF Len(parts) # 2
        THEN IF ~current
             THEN [user |-> <<>>, host |-> <<>>, err |-> ErrInvalidUserHost]
             ELSE [user |-> Username, host |-> userHost, err |-> nil]
        ELSE [user |-> parts[1], host |-> formatHost(parts[2]), err |-> nil]

\* Split of src/ssh.go
sshSplit(userHost, current) ==
    LET parts == stringsSplit(userHost, "@")
    IN  IF Len(parts) # 2
        THEN IF ~current
             THEN [user |-> <<>>, host |-> <<>>, err |-> ErrInvalidUserHost]
             ELSE [user |-> Username, host |-> userHost, err |-> nil]
        ELSE [user |-> parts[1],
              host |-> IF Len(stringsSplit(parts[2], ":")) = 1
                       THEN parts[2] \o <<":", "22">>
                       ELSE parts[2],
              err |-> nil]

\* the call with its result
Parsed(which, userHost, current, r) ==
    [pc |-> "done", input |-> userHost, current |-> current, which |-> which,
     user |-> r.user, host |-> r.host, err |-> r.err]

SplitCall(userHost, current) ==
    /\ sp.pc = "idle"
    /\ sp' = Parsed("sshx", userHost, current, Split(userHost, current))
    /\ UNCHANGED <<file, perm, agent, cfgs, last, call, sh, term, ver>>

sshSplitCall(userHost, current) ==
    /\ sp.pc = "idle"
    /\ sp' = Parsed("ssh", userHost, current, sshSplit(userHost, current))
    /\ UNCHANGED <<file, perm, agent, cfgs, last, call, sh, term, ver>>

SplitReturn ==
    /\ sp.pc = "done"
    /\ sp' = NoSplit
    /\ UNCHANGED <<file, perm, agent, cfgs, last, call, sh, term, ver>>

InitSplit ==
    /\ file = <<>>
    /\ perm = "rw"
    /\ agent = "unset"
    /\ cfgs = [c \in 1..MaxCfg |-> NoConfig]
    /\ last = NoDial
    /\ call = Idle
    /\ IdleSessions
    /\ IdleVerifiers
    /\ IdleSplit

NextSplit ==
    \/ \E userHost \in Addrs, current \in BOOLEAN : SplitCall(userHost, current)
    \/ \E userHost \in Addrs, current \in BOOLEAN :
          sshSplitCall(userHost, current)
    \/ SplitReturn

SpecSplit == InitSplit /\ [][NextSplit]_vars

----------------------------------------------------------------------------
(* Dial, DialEach and Test: claims C11, C18 and C20, under Spec *)

\* C11: with an agent that supplies no signers, DialEach and Test try the
\* caller's signers and nothing else, and give up only after a dial for each;
\* Dial makes its one dial; none of them returns the agent's error.
C11_AgentUnavailableIsNoError ==
    (call.op # "none" /\ call.agent # "ok") =>
        /\ call.err # ErrAgentSigners
        /\ Exploratory =>
              /\ call.signers = call.static
              /\ (call.pc = "done" /\ call.signer = nil) =>
                    Len(call.attempts) = Len(call.static)
        /\ call.op = "Dial" => Len(call.attempts) = 1

\* the dials of the call that succeeded
Succeeded == {j \in Tried : call.attempts[j].err = nil}

\* C18: Test never holds an open client when it has returned: on success
\* the client of the dial that succeeded is closed and the signer of that
\* dial is returned, on failure there is no client. DialEach on success
\* returns the one client it opened, open, with the signer of that dial; on
\* failure there is no client.
C18_TestClosesDialEachKeeps ==
    /\ call.op = "Test" =>
          /\ call.client # "open"
          /\ (call.pc = "done" /\ call.err = nil) =>
                /\ call.client = "closed"
                /\ Succeeded = {Len(call.attempts)}
                /\ call.signer = call.attempts[Len(call.attempts)].signer
          /\ (call.pc # "done" \/ call.err # nil) =>
                /\ call.client = "none"
                /\ Succeeded = {}
    /\ call.op = "DialEach" =>
          /\ (call.pc = "done" /\ call.err = nil) =>
                /\ call.client = "open"
                /\ Succeeded = {Len(call.attempts)}
                /\ call.signer = call.attempts[Len(call.attempts)].signer
          /\ (call.pc # "done" \/ call.err # nil) =>
                /\ call.client = "none"
                /\ Succeeded = {}

C18_Witness ==
    /\ call.op = "Test"
    /\ call.pc = "done"
    /\ call.err = nil
    /\ call.client = "closed"
    /\ Len(call.attempts) = 2
    /\ call.signer = "B"

\* the dials of the call that left known_hosts longer
Wrote == {j \in Tried : call.attempts[j].wrote}

----------------------------------------------------------------------------
(* Run, Exec and Shell: claims C12 to C15 under SpecShell, C16 under
   SpecShells *)

Callers == 1..MaxCallers

\* the places of a call between NewSession and the deferred Close
WithSession ==
    {"run", "runargs", "makeraw", "getsize", "pty", "restore", "close"}

\* the places of Shell between MakeRaw and the deferred Restore
WithRawTerminal == {"getsize", "pty", "run", "restore"}

\* C12: a call of Run, Exec or Shell that has returned holds no open
\* session: the session it opened is closed, whatever the error, and it has
\* none only when the directory was invalid or NewSession failed.
C12_SessionClosed ==
    \A p \in Callers :
        /\ sh[p].pc \in WithSession => sh[p].session = "open"
        /\ sh[p].pc = "done" =>
              /\ sh[p].session # "open"
              /\ sh[p].session = "none" <=>
                    sh[p].err \in {ErrInvalidDir, ErrNewSession}

\* Shell returned after the pty request failed, its session closed
C12_Witness ==
    /\ sh[1].op = "Shell"
    /\ sh[1].pc = "done"
    /\ sh[1].err = ErrRequestPty
    /\ sh[1].session = "closed"

\* C13: the terminal is raw while Shell is between MakeRaw and its return,
\* and once Shell that made it raw has run its deferred Restore the terminal
\* is in the state MakeRaw found, not raw, whatever the error Shell returns.
C13_TerminalRestored ==
    \A p \in Callers :
        /\ (sh[p].op = "Shell" /\ sh[p].pc \in WithRawTerminal) =>
              /\ sh[p].raw
              /\ term = "raw"
        /\ (sh[p].raw /\ sh[p].pc \in {"close", "done"}) =>
              /\ term = sh[p].saved
              /\ term # "raw"
        /\ sh[p].pc = "done" => term # "raw"

\* Shell returned after the session was lost, the terminal restored
C13_Witness ==
    /\ sh[1].pc = "done"
    /\ sh[1].raw
    /\ sh[1].run = ExitMissingError
    /\ sh[1].err = ErrSessionEnded
    /\ term = "cooked"

\* C14: Shell with args requests no pty and leaves the terminal alone; it
\* runs cd dir && exec $SHELL -c "args" and returns what session.Run
\* returned.
C14_ArgsPlainCommand ==
    \A p \in Callers :
        (sh[p].op = "Shell" /\ Len(sh[p].args) > 0) =>
            /\ ~sh[p].pty
            /\ ~sh[p].raw
            /\ term = "cooked"
            /\ sh[p].run # NoRun =>
                  /\ sh[p].err = sh[p].run
                  /\ sh[p].cmd.cd = sh[p].dir
                  /\ sh[p].cmd.exec = <<"$SHELL", "-c">> \o Join(sh[p].args)

\* Shell(client, "srv/app", "ls", "-l") returned exit status 2
C14_Witness ==
    /\ sh[1].op = "Shell"
    /\ sh[1].pc = "done"
    /\ sh[1].dir = <<"srv", "app">>
    /\ sh[1].cmd.exec = <<"$SHELL", "-c", "ls", " ", "-l">>
    /\ sh[1].err = ExitError(2)
    /\ sh[1].session = "closed"

\* the error the translation prescribes for a result of session.Run
Prescribed(s) ==
    /\ s.run = NoErr => s.err = NoErr
    /\ (s.run.kind = "*ssh.ExitError" /\ s.run.status = SigintStatus) =>
          s.err = NoErr
    /\ (s.run.kind = "*ssh.ExitError" /\ s.run.status # SigintStatus) =>
          s.err = ErrExitStatus(s.run.status)
    /\ s.run = ExitMissingError => s.err = ErrSessionEnded

\* C15: whenever Shell has run its command, status 130 is returned as no
\* error, every other status as the exit-status error with that status, and
\* every other failure as the session-ended-unexpectedly error.
C15_ExitTranslation ==
    \A p \in Callers :
        (sh[p].op = "Shell" /\ sh[p].run # NoRun) => Prescribed(sh[p])

\* C15, amended: the translation is that of Shell without args; Shell with
\* args returns the result of session.Run as it is.
C15_ExitTranslationInteractive ==
    \A p \in Callers :
        (sh[p].op = "Shell" /\ sh[p].run # NoRun) =>
            IF Len(sh[p].args) = 0 THEN Prescribed(sh[p])
            ELSE sh[p].err = sh[p].run

\* the shell ended by SIGINT: Shell returned nil
C15_Witness ==
    /\ sh[1].op = "Shell"
    /\ sh[1].pc = "done"
    /\ sh[1].args = <<>>
    /\ sh[1].pty
    /\ sh[1].run = ExitError(SigintStatus)
    /\ sh[1].err = NoErr

\* C16: at most one Shell is between its MakeRaw and its Restore, and the
\* terminal is not raw when no Shell is running.
C16_RawModeExclusive ==
    /\ Cardinality({p \in Callers : sh[p].pc \in WithRawTerminal}) <= 1
    /\ (\A p \in Callers : sh[p].pc \in {"idle", "done"}) => term = "cooked"

----------------------------------------------------------------------------
(* Concurrent appends to known_hosts: claim C17, under SpecAppend *)

Verifiers == 1..MaxVerifiers

\* f begins with the lines of db, in their places
IsPrefix(db, f) == Len(db) <= Len(f) /\ SubSeq(f, 1, Len(db)) = db

\* the lines of f after its first n, as a set
After(f, n) == {f[i] : i \in (n + 1)..Len(f)}

----------------------------------------------------------------------------
(* Split: claim C19, under SpecSplit *)

\* C19: Split returns an error for every input with more than one "@"; for
\* an input without "@" it returns the input as host and the current user,
\* and an error only when the current user cannot be found.
C19_SplitMalformed ==
    sp.pc = "done" =>
        /\ Cardinality(Places(sp.input, "@")) > 1 => sp.err # nil
        /\ Places(sp.input, "@") = {} =>
              IF sp.current
              THEN sp.err = nil /\ sp.host = sp.input /\ sp.user = Username
              ELSE sp.err # nil

====
